---------------------------- MODULE Spec2Model ----------------------------
(***************************************************************************)
(* A model of the coaching-directive arbitration of the LoL coaching      *)
(* backend: CommandManager (src/backend/src/ai_engine/command_manager.py), *)
(* RuleEngine (src/backend/src/ai_engine/rule_engine.py) and the driver    *)
(* GameLoop (src/backend/game_loop.py).                                    *)
(*                                                                         *)
(* Time.  time.time() is modelled by the variable now, in whole seconds.   *)
(* The clock starts at Epoch, a value larger than every interval of the    *)
(* code, as the Unix time is; a timestamp of 0 is "never".                 *)
(* One call of a method reads one value of the clock.  The methods are     *)
(* called at the instants of a set that holds, for every interval the code *)
(* compares an age with, instants on both sides of it.                     *)
(*                                                                         *)
(* Text.  A message is modelled by the name of the rule or producer that   *)
(* formats it; Text gives, for each message, the set of the keywords of    *)
(* the code that occur in its lower-cased text, so that the Python test    *)
(* `kw in message` is  kw \in Text[message].                               *)
(***************************************************************************)
EXTENDS Integers, Sequences, FiniteSets, TLC

\* ------------------------------------------------------------------ bounds
\* the clock starts at Epoch and stops MaxElapsed seconds later; every second
\* of the first Dense ones is an instant of a call
Epoch == 1000
MaxElapsed == 32
Dense == 5
\* every second of the first LoopDense is an instant of a frame
LoopDense == 4
\* the coaching methods are called up to LLMLate seconds after the debounce of
\* a topic of the start has run out
LLMLate == 1

\* an emergency lasts up to MaxUrgent ticks
MaxUrgent == 34

\* ------------------------------------------------------- program constants
\* CommandPriority (IntEnum)
NORMAL == 1
HIGH == 2
CRITICAL == 3

\* CommandState.is_stale(max_age = 30.0)
max_age == 30
\* CommandManager.min_command_interval = 3.0
min_command_interval == 3
\* "if time_since_feedback > 3.0"
feedback_delay == 3
\* "if time_since_command > 8"
trade_delay == 8

\* Python's None
None == [none |-> TRUE]
\* None as the value of an Optional[int] (ObjectiveState spawn times,
\* game_data['game_time'])
NoTime == -1

\* ------------------------------------------------------------------- text
\* The keywords of each message: the members of critical_keywords,
\* high_keywords and of the completion tests that are substrings of the
\* lower-cased message.
Text ==
  [ critical_hp           |-> {"recall"},
    low_hp_danger         |-> {"danger", "back"},
    low_mana              |-> {"escape", "trade"},
    gank_warning          |-> {"gank"},
    enemies_missing       |-> {"retreat", "danger", "roam", "push"},
    tower_dive_risk       |-> {"dive"},
    outnumbered_objective |-> {"dragon"},
    late_game_death       |-> {},
    elder_dragon          |-> {"elder", "dragon"},
    dragon_prep           |-> {"dragon"},
    dragon_imminent       |-> {"dragon"},
    baron_prep            |-> {"baron"},
    baron_imminent        |-> {"baron", "push"},
    herald_prep           |-> {"herald"},
    recall_timing         |-> {"recall", "back", "push"},
    dont_recall_objective |-> {"recall", "dragon"},
    cannon_wave           |-> {},
    recall_buy            |-> {"recall", "buy"},
    farm_more             |-> {},
    fb_recall             |-> {"recall"},
    fb_retreat            |-> {},
    fb_trade              |-> {} ]

\* `kw in message`
Contains(message, kw) == kw \in Text[message]

\* CoachingCommand(priority, category, message); icon, duration and
\* timestamp are carried along and never read by the engine
CoachingCommand(priority, category, message) ==
  [priority |-> priority, category |-> category, message |-> message]

\* PlayerState, VisionState, WaveState, ObjectiveState: the fields of the
\* snapshot that the engines read
PlayerState(hp, hp_max, mana, mana_max, gold, level, is_alive) ==
  [ hp |-> hp, hp_max |-> hp_max, mana |-> mana, mana_max |-> mana_max,
    gold |-> gold, level |-> level, is_alive |-> is_alive ]

VisionState(enemy_visible_count, enemy_missing_count) ==
  [ enemy_visible_count |-> enemy_visible_count,
    enemy_missing_count |-> enemy_missing_count ]

WaveState(wave_position, cannon_wave) ==
  [ wave_position |-> wave_position, cannon_wave |-> cannon_wave ]

ObjectiveState(dragon_spawn_time, baron_spawn_time, herald_spawn_time) ==
  [ dragon_spawn_time |-> dragon_spawn_time,
    baron_spawn_time |-> baron_spawn_time,
    herald_spawn_time |-> herald_spawn_time ]

\* GameState; allies_alive is the number of the allies with is_alive
GameState(game_time, player, vision, wave, objectives, allies_alive) ==
  [ game_time |-> game_time, player |-> player, vision |-> vision,
    wave |-> wave, objectives |-> objectives, allies_alive |-> allies_alive ]

\* ------------------------------------------------------------------ state
VARIABLES
  now,                \* time.time()
  current_command,    \* CommandManager.current_command: a CommandState or None
  last_command_time,  \* CommandManager.last_command_time
  last_gold,          \* CommandManager.last_gold
  last_hp,            \* CommandManager.last_hp
  op,                 \* the method of the engine that was called last
  ret,                \* what should_issue_command returned: "True", "False",
                      \* the exception it raised, "" when it was not the last call
  branch,             \* the return statement it left by
  got,                \* what get_current_command returned, NoCall when it was
                      \* not the last call
  last_get            \* what the get_current_command call before that returned,
                      \* NoCall when another method was called in between

VARIABLES
  last_warning_time,  \* RuleEngine.last_warning_time, 0 for a missing key
  rule_in,            \* the snapshot RuleEngine.process was called on last
  rule_out,           \* what RuleEngine.process returned last: a command, None
                      \* or the exception raised
  emitted,            \* for each rule, when process last returned its command,
                      \* 0 for never
  rule_prev           \* when process had returned the command of the rule of
                      \* rule_out the time before, 0 for never

VARIABLES
  running,            \* GameLoop.running
  game_detected,      \* GameLoop.game_detected
  llm_engine,         \* GameLoop.llm_engine is set (ANTHROPIC_API_KEY given)
  last_llm_time,      \* GameLoop.last_llm_time
  frame,              \* how the last process_frame ended
  candidate,          \* the proposed_command it handed to should_issue_command,
                      \* None when it handed none
  sent                \* the command it handed to on_command, None when none

VARIABLES
  last_llm_call_time, \* LLMEngine.last_llm_call_time
  directive_history,  \* LLMEngine.directive_history: (timestamp, directive_type)
  pending,            \* the coaching methods suspended in "await
                      \* self.anthropic_client.messages.create(...)": the
                      \* network calls in flight
  llm_out,            \* what the coaching method called last returned: a
                      \* directive, None, or the exception raised; NoCall while
                      \* it is suspended
  llm_call,           \* the step of a coaching method taken last: its topic
                      \* and what its gates or the network came to
  attempt_at,         \* when the last network call was attempted, 0 for never
  attempt_prev,       \* when the one before it was attempted, 0 for never
  directive_at        \* for each topic, when a coaching method last returned a
                      \* directive of it, 0 for never

VARIABLES
  urgent_wait         \* on how many ticks in a row a candidate of tier CRITICAL
                      \* was offered to should_issue_command and was not the
                      \* active command after the call

engine_vars == <<current_command, last_command_time, last_gold, last_hp>>
llm_vars ==
  <<last_llm_call_time, directive_history, pending, llm_out, llm_call,
    attempt_at, attempt_prev, directive_at>>
call_vars == <<op, ret, branch, got, last_get>>
rule_vars == <<last_warning_time, rule_in, rule_out, emitted, rule_prev>>
loop_vars ==
  <<running, game_detected, llm_engine, last_llm_time, frame, candidate, sent>>
vars ==
  <<now, engine_vars, call_vars, rule_vars, loop_vars, llm_vars, urgent_wait>>

\* no get_current_command call to speak of
NoCall == [nocall |-> TRUE]

\* the exception e, raised instead of a value returned
Raised(e) == [raised |-> e]

\* ------------------------------------------------ CommandState, CommandManager
\* CommandState.__init__
CommandState(command, priority) ==
  [ command |-> command, priority |-> priority, issued_time |-> now,
    completed |-> FALSE, game_state_snapshot |-> None ]

\* a staleness test that never fires
is_stale_Never(state) == FALSE

\* CommandState.is_stale
is_stale(state) == now - state.issued_time > max_age

\* a should_keep_displaying that forgets the age of the command
should_keep_displaying_NoAge(state) == ~state.completed

\* CommandState.should_keep_displaying
should_keep_displaying(state) == ~state.completed /\ ~is_stale(state)

critical_keywords ==
  {"retreat", "danger", "spotted", "gank", "dive", "run", "escape",
   "baron fight", "teamfight"}

high_keywords == {"recall", "back", "buy", "teleport", "roam", "dragon", "herald"}

\* CommandManager._get_priority
GetPriority(command) ==
  IF \E kw \in critical_keywords : Contains(command.message, kw)
    THEN CRITICAL
  ELSE IF command.category = "objective"
          /\ \E kw \in {"baron", "elder", "soul"} : Contains(command.message, kw)
    THEN CRITICAL
  ELSE IF \E kw \in high_keywords : Contains(command.message, kw)
    THEN HIGH
  ELSE NORMAL

\* the three tests of _detect_completion on the text of the active command
RecallText(message) ==
  Contains(message, "recall")
    \/ (Contains(message, "back") /\ ~Contains(message, "low hp"))
RetreatText(message) == Contains(message, "retreat") \/ Contains(message, "danger")
TradeText(message) ==
  Contains(message, "trade") \/ Contains(message, "aggressive")
    \/ Contains(message, "push")

\* hp_percent >= 99 and mana_percent >= 99, mana_percent being 100 when
\* mana_max is 0 (hp_max > 0)
InBase(player) ==
  /\ player.hp * 100 >= 99 * player.hp_max
  /\ IF player.mana_max > 0 THEN player.mana * 100 >= 99 * player.mana_max ELSE TRUE

\* hp_percent_now > 70 (hp_max > 0)
SafeHp(player) == player.hp * 100 > 70 * player.hp_max

\* CommandManager._detect_completion: the message of the congratulation,
\* "None", or "ZeroDivisionError" when a division by hp_max raises it
DetectCompletion(game_state) ==
  IF current_command = None THEN "None"
  ELSE
    LET message == current_command.command.message
        player == game_state.player
    IN  IF (RecallText(message) \/ RetreatText(message)) /\ player.hp_max = 0
          THEN "ZeroDivisionError"
        ELSE IF RecallText(message) /\ InBase(player)
          THEN "fb_recall"
        ELSE IF RetreatText(message) /\ SafeHp(player)
          THEN "fb_retreat"
        ELSE IF TradeText(message)
                /\ now - current_command.issued_time > trade_delay
                /\ player.is_alive
          THEN "fb_trade"
        ELSE "None"

\* "self.current_command = CommandState(new_command, new_priority);
\*  self.last_command_time = time.time(); self._update_state_snapshot(game_state);
\*  return True", left by the return statement named by b: the state of the
\* engine after the call, and what the call returned
Install(new_command, game_state, b) ==
  [ current_command |-> CommandState(new_command, GetPriority(new_command)),
    last_command_time |-> now,
    \* CommandManager._update_state_snapshot
    last_gold |-> game_state.player.gold,
    last_hp |-> game_state.player.hp,
    ret |-> "True", branch |-> b ]

\* a hold that stamps the time of the call as that of the last install
Hold_Restamp(b) ==
  [ current_command |-> current_command,
    last_command_time |-> now,
    last_gold |-> last_gold, last_hp |-> last_hp,
    ret |-> "False", branch |-> b ]

\* "return False", left by the return statement named by b
Hold(b) ==
  [ current_command |-> current_command,
    last_command_time |-> last_command_time,
    last_gold |-> last_gold, last_hp |-> last_hp,
    ret |-> "False", branch |-> b ]

\* a priority test that also waits for the minimum interval
HigherPriority_Spaced(priority, state) ==
  priority > state.priority /\ now - last_command_time >= min_command_interval

\* a priority test that lets an equal priority through
HigherPriority_OrEqual(priority, state) == priority >= state.priority

\* "if new_priority > self.current_command.priority"
HigherPriority(priority, state) == priority > state.priority

\* "if self.current_command.command.category == "feedback":
\*      if time_since_feedback > 3.0"
FeedbackExpired(state) ==
  /\ state.command.category = "feedback"
  /\ now - state.issued_time > feedback_delay

\* an interval test that still holds at exactly the minimum interval
Throttled_Inclusive == now - last_command_time <= min_command_interval

\* "if time_since_last < self.min_command_interval"
Throttled == now - last_command_time < min_command_interval

\* the congratulation: CoachingCommand(priority="high", category="feedback", ...)
Congrats(completion_msg) == CoachingCommand("high", "feedback", completion_msg)

\* CommandManager.should_issue_command: the state of the engine after the
\* call, and what the call returned
ShouldIssue(new_command, game_state) ==
  LET completion_msg == DetectCompletion(game_state) IN
  IF completion_msg = "ZeroDivisionError" THEN
    [ current_command |-> current_command,
      last_command_time |-> last_command_time,
      last_gold |-> last_gold, last_hp |-> last_hp,
      ret |-> "ZeroDivisionError", branch |-> "raise" ]
  ELSE IF completion_msg # "None" THEN
    [ current_command |-> CommandState(Congrats(completion_msg), HIGH),
      last_command_time |-> now,
      last_gold |-> last_gold, last_hp |-> last_hp,
      ret |-> "True", branch |-> "completion" ]
  ELSE IF current_command = None THEN
    Install(new_command, game_state, "no_current")
  ELSE IF is_stale(current_command) THEN
    Install(new_command, game_state, "stale")
  ELSE IF HigherPriority(GetPriority(new_command), current_command) THEN
    Install(new_command, game_state, "priority")
  ELSE IF FeedbackExpired(current_command) THEN
    Install(new_command, game_state, "feedback")
  ELSE IF GetPriority(new_command) = NORMAL THEN
    IF Throttled
      THEN Hold("normal_hold")
      ELSE Install(new_command, game_state, "normal")
  ELSE Hold("hold")

\* a call of should_issue_command
ShouldIssueCommand(new_command, game_state) ==
  LET r == ShouldIssue(new_command, game_state) IN
  /\ current_command' = r.current_command
  /\ last_command_time' = r.last_command_time
  /\ last_gold' = r.last_gold
  /\ last_hp' = r.last_hp
  /\ op' = "should_issue_command"
  /\ ret' = r.ret
  /\ branch' = r.branch
  /\ got' = NoCall
  /\ last_get' = NoCall
  /\ UNCHANGED now

\* CommandManager.get_current_command on the active command `state`
Displayed(state) ==
  IF state # None /\ should_keep_displaying(state) THEN state.command ELSE None

\* the value get_current_command returns in the current state
CurrentCommand == Displayed(current_command)

\* a get_current_command that drops the active command once it is stale
GetCurrentCommand_Dropping ==
  /\ op' = "get_current_command"
  /\ got' = CurrentCommand
  /\ last_get' = got
  /\ ret' = ""
  /\ branch' = ""
  /\ current_command' =
       IF current_command # None /\ is_stale(current_command)
         THEN None ELSE current_command
  /\ UNCHANGED <<now, last_command_time, last_gold, last_hp>>

\* a call of get_current_command
GetCurrentCommand ==
  /\ op' = "get_current_command"
  /\ got' = CurrentCommand
  /\ last_get' = got
  /\ ret' = ""
  /\ branch' = ""
  /\ UNCHANGED <<now, engine_vars>>

\* a reset that forgets to drop the active command
Reset_KeepsCommand ==
  /\ last_command_time' = 0
  /\ op' = "reset"
  /\ ret' = ""
  /\ branch' = ""
  /\ got' = NoCall
  /\ last_get' = NoCall
  /\ UNCHANGED <<now, current_command, last_gold, last_hp>>

\* CommandManager.reset
Reset ==
  /\ current_command' = None
  /\ last_command_time' = 0
  /\ op' = "reset"
  /\ ret' = ""
  /\ branch' = ""
  /\ got' = NoCall
  /\ last_get' = NoCall
  /\ UNCHANGED <<now, last_gold, last_hp>>

\* the instants at which the methods are called: every second of the first
\* Dense, the two sides of the 8 s of the trade test, and the seconds from
\* the 30 s of staleness on
Instants ==
  { Epoch + d : d \in (0 .. Dense) \cup {trade_delay, trade_delay + 1}
                       \cup (max_age .. MaxElapsed) }

\* the clock moves on to a later instant
Tick == \E t \in Instants : t > now /\ now' = t

\* --------------------------------------------------------------- RuleEngine
\* _can_send_warning(category, cooldown = 10.0)
default_cooldown == 10

\* the keys of last_warning_time
RuleKeys ==
  { "critical_hp", "low_hp_danger", "low_mana", "gank_warning",
    "enemies_missing", "tower_dive_risk", "outnumbered_objective",
    "late_game_death", "elder_dragon", "dragon_prep", "dragon_imminent",
    "baron_prep", "baron_imminent", "herald_prep", "recall_timing",
    "dont_recall_objective", "cannon_wave" }

\* hp_percent < pct/100, with "hp / hp_max if hp_max > 0 else 1.0"
HpBelow(player, pct) ==
  IF player.hp_max > 0 THEN player.hp * 100 < pct * player.hp_max ELSE FALSE

\* mana_percent < pct/100, with "mana / mana_max if mana_max > 0 else 1.0"
ManaBelow(player, pct) ==
  IF player.mana_max > 0 THEN player.mana * 100 < pct * player.mana_max ELSE FALSE

\* the truth value Python gives an Optional[int]: None and 0 are false
Truthy(t) == t # NoTime /\ t # 0

\* one rule of a check_* method: the key and the cooldown it passes to
\* _can_send_warning, the command it returns, and its condition on the snapshot
Rule(key, cooldown, priority, category, cond) ==
  [ key |-> key, cooldown |-> cooldown, priority |-> priority,
    category |-> category, cond |-> cond ]

\* check_safety, rule by rule in the order of the code
SafetyRules(g) ==
  << Rule("critical_hp", 8, "critical", "safety", HpBelow(g.player, 20)),
     Rule("low_hp_danger", default_cooldown, "critical", "safety",
          HpBelow(g.player, 35) /\ g.vision.enemy_visible_count >= 2),
     Rule("low_mana", 15, "medium", "safety",
          ManaBelow(g.player, 20) /\ g.game_time < 900),
     Rule("gank_warning", 12, "high", "safety",
          /\ g.vision.enemy_missing_count >= 2
          /\ g.game_time < 900
          /\ g.wave.wave_position # "ally_tower"),
     Rule("enemies_missing", default_cooldown, "high", "safety",
          /\ g.vision.enemy_missing_count >= 3
          /\ g.wave.wave_position = "enemy_tower"),
     Rule("tower_dive_risk", default_cooldown, "critical", "safety",
          /\ g.wave.wave_position = "enemy_tower"
          /\ g.vision.enemy_visible_count >= 2
          /\ HpBelow(g.player, 50)),
     Rule("outnumbered_objective", default_cooldown, "high", "safety",
          /\ Truthy(g.objectives.dragon_spawn_time)
          /\ g.objectives.dragon_spawn_time < 30
          /\ g.allies_alive < g.vision.enemy_visible_count - 1) >>

\* check_late_game: nothing before 3600 s of game time
LateGameRules(g) ==
  << Rule("late_game_death", 30, "critical", "safety",
          g.game_time >= 3600 /\ g.game_time > 3600 /\ HpBelow(g.player, 50)),
     Rule("elder_dragon", 30, "critical", "objective",
          /\ g.game_time >= 3600
          /\ g.game_time > 2100
          /\ Truthy(g.objectives.dragon_spawn_time)
          /\ g.objectives.dragon_spawn_time < 60) >>

\* "if t: if lo < t < hi"
Between(t, lo, hi) == Truthy(t) /\ lo < t /\ t < hi

\* check_objectives
ObjectiveRules(g) ==
  << Rule("dragon_prep", 20, "high", "objective",
          Between(g.objectives.dragon_spawn_time, 45, 60)),
     Rule("dragon_imminent", 20, "high", "objective",
          Between(g.objectives.dragon_spawn_time, 15, 30)),
     Rule("baron_prep", 25, "high", "objective",
          Between(g.objectives.baron_spawn_time, 60, 90)),
     Rule("baron_imminent", 25, "critical", "objective",
          Between(g.objectives.baron_spawn_time, 20, 40)),
     Rule("herald_prep", 20, "medium", "objective",
          Between(g.objectives.herald_spawn_time, 40, 60)) >>

\* check_recall_timing, called with hp_max > 0: its hp_percent is the
\* unguarded hp / hp_max
RecallRules(g) ==
  << Rule("recall_timing", 15, "medium", "recall",
          /\ g.player.gold >= 1200
          /\ (g.player.hp * 100 < 40 * g.player.hp_max \/ ManaBelow(g.player, 30))
          /\ g.wave.wave_position = "enemy_tower"),
     Rule("dont_recall_objective", 20, "medium", "recall",
          /\ Truthy(g.objectives.dragon_spawn_time)
          /\ g.objectives.dragon_spawn_time < 45) >>

\* check_cannon_wave
CannonRules(g) ==
  << Rule("cannon_wave", 30, "low", "wave", g.wave.cannon_wave) >>

\* a _can_send_warning that ignores the time of the last warning
CanSendWarning_Always(lwt, key, cooldown) == TRUE

\* the test of _can_send_warning on the timestamps lwt
CanSendWarning(lwt, key, cooldown) == now - lwt[key] >= cooldown

\* the rules of a method that are allowed to fire: condition and cooldown
Allowed(rules, lwt) ==
  { i \in 1 .. Len(rules) :
      rules[i].cond /\ CanSendWarning(lwt, rules[i].key, rules[i].cooldown) }

\* a check_* method on the timestamps lwt: the conditions are tried in order,
\* _can_send_warning is asked for each one that holds, and the first one it
\* lets through stamps its key and returns its command
Check(rules, lwt) ==
  LET ok == Allowed(rules, lwt) IN
  IF ok = {} THEN [command |-> None, lwt |-> lwt]
  ELSE LET i == CHOOSE j \in ok : \A k \in ok : j <= k
           r == rules[i]
       IN  [ command |-> CoachingCommand(r.priority, r.category, r.key),
             lwt |-> [lwt EXCEPT ![r.key] = now] ]

\* priority_order.get(c.priority, 999)
priority_order(priority) ==
  CASE priority = "critical" -> 0
    [] priority = "high" -> 1
    [] priority = "medium" -> 2
    [] priority = "low" -> 3
    [] OTHER -> 999

\* "commands.sort(key = ...); return commands[0]": the sort is stable, so the
\* first of the commands of the best rank
First(commands) ==
  LET best == { i \in 1 .. Len(commands) :
                  \A k \in 1 .. Len(commands) :
                    priority_order(commands[i].priority)
                      <= priority_order(commands[k].priority) }
  IN  commands[CHOOSE i \in best : \A k \in best : i <= k]

\* the commands that are not None, in order
Collected(results) ==
  LET Keep(c) == c # None IN SelectSeq(results, Keep)

\* RuleEngine.process on the timestamps lwt: what it returns and the
\* timestamps it leaves.  check_recall_timing raises ZeroDivisionError when
\* hp_max is 0, after the three methods before it have stamped their keys.
Process(g, lwt) ==
  LET safety == Check(SafetyRules(g), lwt)
      late_game == Check(LateGameRules(g), safety.lwt)
      objective == Check(ObjectiveRules(g), late_game.lwt)
  IN  IF g.player.hp_max = 0
        THEN [out |-> Raised("ZeroDivisionError"), lwt |-> objective.lwt]
      ELSE
        LET recall == Check(RecallRules(g), objective.lwt)
            cannon == Check(CannonRules(g), recall.lwt)
            commands == Collected(<< safety.command, late_game.command,
                                     objective.command, recall.command,
                                     cannon.command >>)
        IN  [ out |-> IF Len(commands) > 0 THEN First(commands) ELSE None,
              lwt |-> cannon.lwt ]

\* what process returned is a command
IsCommand(out) == out # None /\ out \notin {Raised("ZeroDivisionError")}

\* a call of RuleEngine.process on g, as the engine and its observers see it
RuleCall(g) ==
  LET r == Process(g, last_warning_time) IN
  /\ last_warning_time' = r.lwt
  /\ rule_in' = g
  /\ rule_out' = r.out
  /\ IF IsCommand(r.out)
       THEN /\ emitted' = [emitted EXCEPT ![r.out.message] = now]
            /\ rule_prev' = emitted[r.out.message]
       ELSE /\ UNCHANGED emitted
            /\ rule_prev' = 0

\* a call of RuleEngine.process
RuleProcess(g) == RuleCall(g) /\ UNCHANGED now

\* RuleEngine.__init__
RuleInit ==
  /\ last_warning_time = [k \in RuleKeys |-> 0]
  /\ rule_in = None
  /\ rule_out = None
  /\ emitted = [k \in RuleKeys |-> 0]
  /\ rule_prev = 0

\* ---------------------------------------------------------------- LLMEngine
\* LLMEngine.min_call_interval = 2.0
min_call_interval == 2
\* LLMEngine.history_window = 30
history_window == 30
\* LLMEngine.max_history_size = 20
max_history_size == 20

\* the directive types of the six coaching methods
Topics ==
  {"wave_management", "objective", "team_fight", "vision", "itemization", "backing"}

\* "(dragon_time and dragon_time < d) or (baron_time and baron_time < b) or
\*  (herald_time and herald_time < h)"
ObjectiveWithin(objectives, d, b, h) ==
  \/ Truthy(objectives.dragon_spawn_time) /\ objectives.dragon_spawn_time < d
  \/ Truthy(objectives.baron_spawn_time) /\ objectives.baron_spawn_time < b
  \/ Truthy(objectives.herald_spawn_time) /\ objectives.herald_spawn_time < h

\* a trigger gate that forgets the spacing of the calls
ShouldTriggerLlm_NoSpacing(g) ==
  IF g.player.hp_max = 0 THEN "ZeroDivisionError" ELSE "True"

\* LLMEngine._should_trigger_llm: "True", "False", or the ZeroDivisionError
\* of gate 5 on hp / hp_max
ShouldTriggerLlm(g) ==
  LET since == now - last_llm_call_time IN
  IF since < min_call_interval THEN "False"
  ELSE IF g.wave.wave_position
            \in {"ally_tower", "enemy_tower", "midfield", "enemy_side"}
          /\ since > 10 THEN "True"
  ELSE IF ObjectiveWithin(g.objectives, 120, 120, 120) THEN "True"
  ELSE IF g.player.gold >= 800 THEN "True"
  ELSE IF g.vision.enemy_missing_count >= 2 THEN "True"
  ELSE IF g.player.hp_max = 0 THEN "ZeroDivisionError"
  ELSE IF \/ g.player.hp * 100 < 40 * g.player.hp_max
          \/ g.player.mana_max > 0 /\ g.player.mana * 100 < 30 * g.player.mana_max
    THEN "True"
  ELSE IF since > 15 THEN "True"
  ELSE "False"

\* a debounce that never finds the topic
WasRecentlyUsed_Never(directive_type) == FALSE

\* LLMEngine._was_recently_used
WasRecentlyUsed(directive_type) ==
  \E i \in 1 .. Len(directive_history) :
    /\ directive_history[i].timestamp > now - history_window
    /\ directive_history[i].directive_type = directive_type

\* an _add_to_history that keeps the newest entry only
AddToHistory_NewestOnly(directive_type) ==
  << [timestamp |-> now, directive_type |-> directive_type] >>

\* LLMEngine._add_to_history: the history after the call
AddToHistory(directive_type) ==
  LET appended ==
        Append(directive_history,
               [timestamp |-> now, directive_type |-> directive_type])
      Recent(e) == e.timestamp > now - history_window * 2
      kept == SelectSeq(appended, Recent)
  IN  IF Len(kept) > max_history_size
        THEN SubSeq(kept, Len(kept) - max_history_size + 1, Len(kept))
        ELSE kept

\* the test a coaching method makes before _should_trigger_llm: only
\* objective_coaching has one
BeforeGate(topic, g) ==
  topic = "objective" => ObjectiveWithin(g.objectives, 60, 90, 90)

\* the test a coaching method makes after _was_recently_used: "True",
\* "False", or the ZeroDivisionError of backing_timing_coaching on hp / hp_max
AfterGate(topic, g) ==
  CASE topic = "team_fight" ->
         IF g.vision.enemy_visible_count < 2 THEN "False" ELSE "True"
    [] topic = "itemization" ->
         IF g.player.gold < 400 THEN "False" ELSE "True"
    [] topic = "backing" ->
         IF g.player.hp_max = 0 THEN "ZeroDivisionError"
         ELSE IF /\ g.player.hp * 100 > 70 * g.player.hp_max
                 /\ (g.player.mana_max > 0 =>
                       g.player.mana * 100 > 50 * g.player.mana_max)
                 /\ g.player.gold < 800
           THEN "False" ELSE "True"
    [] OTHER -> "True"

\* a coaching method up to its network call: "call" when it gets there,
\* "None" when it returns None before, or the exception it raises
\* (_build_context divides by hp_max outside the try block)
Gates(topic, g) ==
  IF ~BeforeGate(topic, g) THEN "None"
  ELSE IF ShouldTriggerLlm(g) # "True"
    THEN (IF ShouldTriggerLlm(g) = "False" THEN "None" ELSE ShouldTriggerLlm(g))
  ELSE IF WasRecentlyUsed(topic) THEN "None"
  ELSE IF AfterGate(topic, g) # "True"
    THEN (IF AfterGate(topic, g) = "False" THEN "None" ELSE AfterGate(topic, g))
  ELSE IF g.player.hp_max = 0 THEN "ZeroDivisionError"
  ELSE "call"

\* the DirectiveV1 a coaching method builds
Directive(topic) == [t |-> "directive.v1", directive_type |-> topic]

\* a caller that does not wait for the coaching method it called
Idle_NotAwaiting == TRUE

\* the caller of the coaching methods is not inside one: it awaits each
\* (game_loop.py:234, monitor.py:205 and 212)
Idle == pending = {}

\* a coaching method is called and runs up to its network call
CoachStart(topic, g) ==
  /\ Idle
  /\ UNCHANGED <<now, last_llm_call_time, directive_history, directive_at>>
  /\ llm_call' = [ directive_type |-> topic,
                   trigger |-> IF BeforeGate(topic, g)
                                 THEN ShouldTriggerLlm(g) ELSE "not asked",
                   recently_used |-> WasRecentlyUsed(topic),
                   reply |-> "" ]
  /\ IF Gates(topic, g) = "call"
       THEN /\ pending' = pending \cup {[directive_type |-> topic, started |-> now]}
            /\ llm_out' = NoCall
            /\ attempt_at' = now
            /\ attempt_prev' = attempt_at
       ELSE /\ UNCHANGED pending
            /\ llm_out' = (IF Gates(topic, g) = "None"
                             THEN None ELSE Raised(Gates(topic, g)))
            /\ UNCHANGED <<attempt_at, attempt_prev>>

\* what the network call can come to: a reply that makes a directive, a reply
\* without a JSON object, with malformed JSON or with fields that fail
\* validation, or an exception of the client (network error, timeout)
Replies == {"directive", "no_json", "bad_json", "invalid", "exception"}

\* a reply handling that counts the attempt whatever came of it
Stamped_Always(reply) == TRUE

\* "self.last_llm_call_time = time.time()" is reached: the await returned
Stamped(reply) == reply # "exception"

\* the network call of a suspended method ends and the method returns
CoachFinish(call, reply) ==
  /\ call \in pending
  /\ pending' = pending \ {call}
  /\ llm_call' = [llm_call EXCEPT !.reply = reply]
  /\ last_llm_call_time' = (IF Stamped(reply) THEN now ELSE last_llm_call_time)
  /\ IF reply = "directive"
       THEN /\ directive_history' = AddToHistory(call.directive_type)
            /\ llm_out' = Directive(call.directive_type)
            /\ directive_at' = [directive_at EXCEPT ![call.directive_type] = now]
       ELSE /\ llm_out' = None
            /\ UNCHANGED <<directive_history, directive_at>>
  /\ UNCHANGED <<now, attempt_at, attempt_prev>>

\* LLMEngine.__init__
LLMInit ==
  /\ last_llm_call_time = 0
  /\ directive_history = << >>
  /\ pending = {}
  /\ llm_out = None
  /\ llm_call = [ directive_type |-> "", trigger |-> "not asked",
                  recently_used |-> FALSE, reply |-> "" ]
  /\ attempt_at = 0
  /\ attempt_prev = 0
  /\ directive_at = [topic \in Topics |-> 0]

\* ----------------------------------------------------------------- GameLoop
\* GameLoop.llm_interval = 2.5: an age in whole seconds is >= 2.5 exactly
\* when it is >= 3
llm_interval == 3

\* GameLoop.__init__; llm is whether ANTHROPIC_API_KEY is set
LoopInit(llm) ==
  /\ running = FALSE
  /\ game_detected = FALSE
  /\ llm_engine = llm
  /\ last_llm_time = 0
  /\ frame = "__init__"
  /\ candidate = None
  /\ sent = None

\* GameLoop._build_game_state: hp_max = mana_max = 100, level 10, no
\* objective timers, wave at "mid" without cannon, 2 enemies visible and 3
\* missing, no allies
LoopState(game_time, hp, mana, gold) ==
  GameState(game_time, PlayerState(hp, 100, mana, 100, gold, 10, TRUE),
            VisionState(2, 3), WaveState("mid", FALSE),
            ObjectiveState(NoTime, NoTime, NoTime), 0)

\* the recall recommendation of the build tracker as process_frame wraps it:
\* CoachingCommand(priority = recall_rec['priority'], category = "recall", ...)
RecallCommand(recall_rec) ==
  CASE recall_rec = "recall_buy" -> CoachingCommand("high", "recall", "recall_buy")
    [] recall_rec = "farm_more" -> CoachingCommand("medium", "recall", "farm_more")
    [] OTHER -> None

\* "recall_command if recall_command else (llm_command if llm_command else
\* rule_command)", llm_command being None
Proposed(recall_command, rule_command) ==
  IF recall_command # None THEN recall_command ELSE rule_command

\* a frame that ends before the engines are reached
FrameEnds(how) ==
  /\ frame' = how
  /\ candidate' = None
  /\ sent' = None
  /\ UNCHANGED <<now, engine_vars, call_vars, rule_vars, llm_vars, urgent_wait, running,
                 llm_engine, last_llm_time>>

\* steps 8 of process_frame: the proposed command goes to the command manager
\* and what get_current_command then returns goes to on_command
Arbitrate(proposed_command, game_state) ==
  IF proposed_command = None
    THEN /\ candidate' = None
         /\ sent' = None
         /\ UNCHANGED <<engine_vars, call_vars>>
    ELSE LET r == ShouldIssue(proposed_command, game_state)
             command_to_send == Displayed(r.current_command)
         IN  /\ candidate' = proposed_command
             /\ current_command' = r.current_command
             /\ last_command_time' = r.last_command_time
             /\ last_gold' = r.last_gold
             /\ last_hp' = r.last_hp
             /\ ret' = r.ret
             /\ branch' = r.branch
             /\ last_get' = NoCall
             /\ IF r.ret = "True"
                  THEN /\ op' = "get_current_command"
                       /\ got' = command_to_send
                       /\ sent' = command_to_send
                  ELSE /\ op' = "should_issue_command"
                       /\ got' = NoCall
                       /\ sent' = None

\* GameLoop.process_frame, one iteration of "while self.running".  captured:
\* capture_game returned a frame; game_time, hp, mana, gold: what the OCR
\* read; recall_rec: what the build tracker recommends.  With an LLM engine
\* the call wave_management_coaching(game_state, live_ctx) passes one
\* argument more than the method takes: the TypeError ends the frame in the
\* "except Exception" of process_frame.
ProcessFrame(captured, game_time, hp, mana, gold, recall_rec) ==
  /\ running
  /\ IF ~captured THEN
       /\ game_detected' = FALSE
       /\ FrameEnds("no_window")
     ELSE IF game_time = NoTime THEN
       /\ game_detected' = TRUE
       /\ FrameEnds("no_game_state")
     ELSE
       LET game_state == LoopState(game_time, hp, mana, gold)
           rule == Process(game_state, last_warning_time)
       IN  /\ game_detected' = TRUE
           /\ RuleCall(game_state)
           /\ UNCHANGED <<now, running, llm_engine, llm_vars, urgent_wait>>
           /\ IF llm_engine /\ now - last_llm_time >= llm_interval
                THEN /\ last_llm_time' = now
                     /\ frame' = "TypeError"
                     /\ candidate' = None
                     /\ sent' = None
                     /\ UNCHANGED <<engine_vars, call_vars>>
                ELSE /\ UNCHANGED last_llm_time
                     /\ frame' = "done"
                     /\ Arbitrate(Proposed(RecallCommand(recall_rec), rule.out),
                                  game_state)

\* GameLoop.run up to its loop: "self.running = True"
Run ==
  /\ ~running
  /\ running' = TRUE
  /\ frame' = "run"
  /\ UNCHANGED <<now, engine_vars, call_vars, rule_vars, llm_vars, urgent_wait, game_detected,
                 llm_engine, last_llm_time, candidate, sent>>

\* GameLoop.stop, and the loop of run leaving on it
Stop ==
  /\ running
  /\ running' = FALSE
  /\ frame' = "stop"
  /\ UNCHANGED <<now, engine_vars, call_vars, rule_vars, llm_vars, urgent_wait, game_detected,
                 llm_engine, last_llm_time, candidate, sent>>

\* ------------------------------------------------------------- the inputs
\* the commands offered to the engine: directives of the rule engine
\* (rule_engine.py) and of the build tracker (build_tracker.py), each with
\* the priority and the category its producer gives it
Candidates ==
  { CoachingCommand("critical", "safety", "critical_hp"),
    CoachingCommand("critical", "safety", "low_hp_danger"),
    CoachingCommand("medium", "safety", "low_mana"),
    CoachingCommand("high", "objective", "dragon_prep"),
    CoachingCommand("medium", "recall", "farm_more"),
    CoachingCommand("low", "wave", "cannon_wave") }

Snapshots ==
  { LoopState(600, 50, 50, 0), LoopState(600, 80, 50, 0),
    LoopState(600, 100, 50, 0), LoopState(600, 100, 100, 0) }

\* -------------------------------------- the specification of the engine
\* CommandManager.__init__
EngineInit ==
  /\ current_command = None
  /\ last_command_time = 0
  /\ last_gold = 0
  /\ last_hp = 0
  /\ op = "__init__"
  /\ ret = ""
  /\ branch = ""
  /\ got = NoCall
  /\ last_get = NoCall

Init ==
  /\ now = Epoch /\ EngineInit /\ RuleInit /\ LoopInit(FALSE) /\ LLMInit
  /\ urgent_wait = 0

Evaluate ==
  /\ \E c \in Candidates, g \in Snapshots : ShouldIssueCommand(c, g)
  /\ UNCHANGED <<rule_vars, loop_vars, llm_vars, urgent_wait>>

GetCurrent == GetCurrentCommand /\ UNCHANGED <<rule_vars, loop_vars, llm_vars, urgent_wait>>

EngineReset == Reset /\ UNCHANGED <<rule_vars, loop_vars, llm_vars, urgent_wait>>

Advance == Tick /\ UNCHANGED <<engine_vars, call_vars, rule_vars, loop_vars, llm_vars, urgent_wait>>

Next == Evaluate \/ GetCurrent \/ EngineReset \/ Advance

Spec == Init /\ [][Next]_vars

\* --------------------------------- the specification of the rule engine
\* the snapshots process is called on: mana low and a dive under the enemy
\* tower; mana low and the dragon in 50 s; a snapshot without
\* maxima (hp_max = mana_max = 0) with the dragon in 50 s; health critical
\* with nothing else to report
RuleSnapshots ==
  { GameState(600, PlayerState(40, 100, 10, 100, 0, 10, TRUE),
              VisionState(2, 0), WaveState("enemy_tower", FALSE),
              ObjectiveState(NoTime, NoTime, NoTime), 0),
    GameState(600, PlayerState(100, 100, 10, 100, 0, 10, TRUE),
              VisionState(0, 0), WaveState("mid", FALSE),
              ObjectiveState(50, NoTime, NoTime), 4),
    GameState(600, PlayerState(0, 0, 0, 0, 0, 1, TRUE),
              VisionState(0, 0), WaveState("mid", FALSE),
              ObjectiveState(50, NoTime, NoTime), 4),
    GameState(1000, PlayerState(15, 100, 100, 100, 0, 10, TRUE),
              VisionState(0, 0), WaveState("mid", FALSE),
              ObjectiveState(NoTime, NoTime, NoTime), 4) }

\* the instants at which process is called: the start, and each cooldown of
\* the rules of RuleSnapshots later
RuleInstants == { Epoch + d : d \in {0, 8, default_cooldown, 15, 20} }

RuleStep ==
  /\ \E g \in RuleSnapshots : RuleProcess(g)
  /\ UNCHANGED <<engine_vars, call_vars, loop_vars, llm_vars, urgent_wait>>

RuleAdvance ==
  /\ \E t \in RuleInstants : t > now /\ now' = t
  /\ UNCHANGED <<engine_vars, call_vars, rule_vars, loop_vars, llm_vars, urgent_wait>>

NextRule == RuleStep \/ RuleAdvance

SpecRule == Init /\ [][NextRule]_vars

\* ------------------------------------ the specification of the game loop
\* what the OCR reads as hp_percent
Percents == {50, 100}

\* the instants of the loop: every second of the first LoopDense, and the
\* first one at which a command of the start is stale
LoopInstants == { Epoch + d : d \in (0 .. LoopDense) \cup {max_age + 1} }

InitLoop ==
  /\ now = Epoch /\ EngineInit /\ RuleInit /\ LLMInit
  /\ \E llm \in BOOLEAN : LoopInit(llm)
  /\ urgent_wait = 0

Frame ==
  \E captured \in BOOLEAN, game_time \in {NoTime, 600}, hp \in Percents,
     recall_rec \in {"none", "recall_buy"} :
       ProcessFrame(captured, game_time, hp, 100, 0, recall_rec)

LoopAdvance ==
  /\ \E t \in LoopInstants : t > now /\ now' = t
  /\ UNCHANGED <<engine_vars, call_vars, rule_vars, loop_vars, llm_vars, urgent_wait>>

NextLoop == Run \/ Frame \/ Stop \/ LoopAdvance

SpecLoop == InitLoop /\ [][NextLoop]_vars

\* ------------------------------------ the specification of the LLM engine
\* the snapshots the coaching methods are called on: nothing to report;
\* the dragon in 50 s; a snapshot without maxima
LLMSnapshots ==
  { GameState(600, PlayerState(100, 100, 100, 100, 0, 10, TRUE),
              VisionState(0, 0), WaveState("mid", FALSE),
              ObjectiveState(NoTime, NoTime, NoTime), 4),
    GameState(600, PlayerState(100, 100, 100, 100, 0, 10, TRUE),
              VisionState(0, 0), WaveState("mid", FALSE),
              ObjectiveState(50, NoTime, NoTime), 4),
    GameState(600, PlayerState(0, 0, 0, 0, 0, 1, TRUE),
              VisionState(0, 0), WaveState("mid", FALSE),
              ObjectiveState(NoTime, NoTime, NoTime), 4) }

\* the coaching methods that are called
LLMTopics == {"wave_management", "objective"}

\* the instants of the calls: the seconds around the spacing of the calls,
\* the periodic gate, the debounce of a topic, and the age at which
\* _add_to_history drops the entries of the start
LLMInstants ==
  { Epoch + d : d \in (0 .. min_call_interval + 1) \cup {16}
                       \cup (history_window - 1 .. history_window + LLMLate)
                       \cup {history_window * 2} }

Start ==
  /\ \E topic \in LLMTopics, g \in LLMSnapshots : CoachStart(topic, g)
  /\ UNCHANGED <<engine_vars, call_vars, rule_vars, loop_vars, urgent_wait>>

Finish ==
  /\ \E call \in pending, reply \in Replies : CoachFinish(call, reply)
  /\ UNCHANGED <<engine_vars, call_vars, rule_vars, loop_vars, urgent_wait>>

LLMAdvance ==
  /\ \E t \in LLMInstants : t > now /\ now' = t
  /\ UNCHANGED <<engine_vars, call_vars, rule_vars, loop_vars, llm_vars, urgent_wait>>

NextLLM == Start \/ Finish \/ LLMAdvance

SpecLLM == Init /\ [][NextLLM]_vars

\* ------------------------- the specification of the ticks of an emergency
\* the candidates the engine ranks CRITICAL
UrgentCandidates == { c \in Candidates : GetPriority(c) = CRITICAL }

\* a tick: should_issue_command is called on a candidate of tier CRITICAL,
\* and the next tick is a second later
UrgentTick ==
  /\ now < Epoch + MaxUrgent
  /\ \E c \in UrgentCandidates, g \in Snapshots :
       LET r == ShouldIssue(c, g) IN
       /\ current_command' = r.current_command
       /\ last_command_time' = r.last_command_time
       /\ last_gold' = r.last_gold
       /\ last_hp' = r.last_hp
       /\ op' = "should_issue_command"
       /\ ret' = r.ret
       /\ branch' = r.branch
       /\ got' = NoCall
       /\ last_get' = NoCall
       /\ urgent_wait' = IF r.current_command # None
                             /\ r.current_command.command = c
                           THEN 0 ELSE urgent_wait + 1
  /\ now' = now + 1
  /\ UNCHANGED <<rule_vars, loop_vars, llm_vars>>

NextUrgent == UrgentTick

SpecUrgent == Init /\ [][NextUrgent]_vars

\* ================================================================= claims

\* C1 -- priority monotonicity: when there is an active command, no
\* completion is detected on the call and the candidate's tier is strictly
\* higher than the active command's, should_issue_command installs the
\* candidate and returns True, whatever the age of the active command.
C1_PriorityMonotonicity ==
  [][\A c \in Candidates, g \in Snapshots :
       ( /\ current_command # None
         /\ DetectCompletion(g) = "None"
         /\ GetPriority(c) > current_command.priority
         /\ ShouldIssueCommand(c, g) )
       => ( /\ ret' = "True"
            /\ current_command' = CommandState(c, GetPriority(c))
            /\ last_command_time' = now )]_vars

\* a higher tier has replaced a command that was less than 3 s old
C1_Witness ==
  /\ op = "should_issue_command"
  /\ branch = "priority"
  /\ ret = "True"
  /\ current_command.issued_time < Epoch + min_command_interval

\* C2 -- completion preemption, as claimed: whenever the active command has
\* category "recall" and the snapshot has health and mana at 99 % or more,
\* should_issue_command installs the feedback command and returns True,
\* whatever the candidate and whatever the text of the active command.
C2_RecallCompletion ==
  [][\A c \in Candidates, g \in Snapshots :
       ( /\ current_command # None
         /\ current_command.command.category = "recall"
         /\ InBase(g.player)
         /\ ShouldIssueCommand(c, g) )
       => ( /\ ret' = "True"
            /\ current_command'.command.category = "feedback" )]_vars

\* C3 -- staleness bound: get_current_command returns nothing whenever the
\* active command is more than 30 s old.
C3_StalenessBound ==
  (current_command # None /\ now - current_command.issued_time > max_age)
    => CurrentCommand = None

\* get_current_command was called 31 s after the install and returned nothing
C3_Witness ==
  /\ current_command # None
  /\ now - current_command.issued_time = max_age + 1
  /\ op = "get_current_command"
  /\ got = None

\* C4 -- normal-tier throttle: with a NORMAL active command that is not
\* stale and no completion detected, a NORMAL candidate is held, the engine
\* unchanged, when less than 3 s have passed since the last install, and is
\* installed when 3 s or more have passed.
C4_NormalThrottle ==
  [][\A c \in Candidates, g \in Snapshots :
       ( /\ current_command # None
         /\ ~is_stale(current_command)
         /\ current_command.priority = NORMAL
         /\ DetectCompletion(g) = "None"
         /\ GetPriority(c) = NORMAL
         /\ ShouldIssueCommand(c, g) )
       => IF now - last_command_time < 3
            THEN ret' = "False" /\ UNCHANGED engine_vars
            ELSE /\ ret' = "True"
                 /\ current_command' = CommandState(c, NORMAL)
                 /\ last_command_time' = now]_vars

\* a NORMAL candidate has replaced a NORMAL command after the spacing
C4_Witness ==
  /\ op = "should_issue_command"
  /\ branch = "normal"
  /\ ret = "True"
  /\ current_command.priority = NORMAL
  /\ current_command.issued_time >= Epoch + 3

\* C5 -- equal tiers, as claimed: a candidate of the same tier as the active
\* command replaces it only if the active command is stale or completion was
\* detected on the call.
C5_EqualTiersOriginal ==
  [][\A c \in Candidates, g \in Snapshots :
       ( /\ current_command # None
         /\ GetPriority(c) = current_command.priority
         /\ ShouldIssueCommand(c, g)
         /\ current_command' # current_command )
       => (is_stale(current_command) \/ DetectCompletion(g) # "None")]_vars

\* C5, amended: a candidate of the same tier as the active command replaces
\* it only if the active command is stale, completion was detected, the
\* active command is a feedback command shown for more than 3 s, or the
\* candidate is NORMAL and 3 s or more have passed since the last install.
C5_EqualTiers ==
  [][\A c \in Candidates, g \in Snapshots :
       ( /\ current_command # None
         /\ GetPriority(c) = current_command.priority
         /\ ShouldIssueCommand(c, g)
         /\ current_command' # current_command )
       => \/ is_stale(current_command)
          \/ DetectCompletion(g) # "None"
          \/ /\ current_command.command.category = "feedback"
             /\ now - current_command.issued_time > 3
          \/ /\ GetPriority(c) = NORMAL
             /\ now - last_command_time >= 3]_vars

\* a HIGH candidate has replaced the (HIGH) feedback command
C5_Witness ==
  /\ op = "should_issue_command"
  /\ branch = "feedback"
  /\ ret = "True"
  /\ current_command.priority = HIGH

\* the tier that the priority field of a command names
FieldTier(priority) ==
  IF priority = "critical" THEN CRITICAL
  ELSE IF priority = "high" THEN HIGH
  ELSE NORMAL

\* C6 -- the tier of a command, as claimed: the tier the engine gives the
\* active command is the one its priority field names.
C6_TierFromPriorityField ==
  current_command # None
    => current_command.priority = FieldTier(current_command.command.priority)

\* C7 -- reset: after reset there is no active command and
\* get_current_command returns nothing; and whenever there is no active
\* command, should_issue_command installs its candidate and returns True.
C7_Reset ==
  [][ /\ Reset => (current_command' = None /\ CurrentCommand' = None)
      /\ \A c \in Candidates, g \in Snapshots :
           (current_command = None /\ ShouldIssueCommand(c, g))
             => ( /\ ret' = "True"
                  /\ current_command' = CommandState(c, GetPriority(c)) )]_vars

\* reset was called less than 3 s after an install
C7_Witness ==
  /\ op = "reset"
  /\ current_command = None
  /\ last_hp # 0
  /\ now < Epoch + min_command_interval

\* C9 -- idempotence of get_current_command, as claimed: two calls with no
\* other call of the engine in between return the same.
C9_GetCurrentIdempotent ==
  (op = "get_current_command" /\ last_get # NoCall) => got = last_get

\* C9, amended: get_current_command changes no variable of the engine, and
\* of two calls with no other call of the engine in between the second
\* returns what the first returned, or nothing when the active command has
\* become stale.
C9_GetCurrentStable ==
  [][GetCurrentCommand
       => /\ UNCHANGED engine_vars
          /\ got # NoCall
               => \/ got' = got
                  \/ /\ got' = None
                     /\ current_command # None
                     /\ is_stale(current_command)]_vars

\* the second of two calls returned nothing after the first returned the
\* active command
C9_Witness ==
  /\ op = "get_current_command"
  /\ last_get # NoCall
  /\ last_get # None
  /\ got = None

\* C8: when the driver is stopped or the game window is lost the engine is
\* reset: in the state that GameLoop.stop, or a frame without a game window,
\* leaves, get_current_command returns no directive and the engine holds none.
C8_ResetOnStop ==
  frame \in {"stop", "no_window"} =>
    CurrentCommand = None /\ current_command = None

\* every rule of the five check_* methods, in the order process calls them
AllRules(g) ==
  SafetyRules(g) \o LateGameRules(g) \o ObjectiveRules(g) \o RecallRules(g)
    \o CannonRules(g)

\* C10: RuleEngine.process returns, among all the rules whose condition holds
\* on the snapshot and whose cooldown allows them to fire, the first one of
\* the highest priority; it returns None only when there is no such rule.
C10_HighestAllowed ==
  [][ \A g \in RuleSnapshots :
        (g.player.hp_max > 0 /\ RuleProcess(g)) =>
          LET rules == AllRules(g)
              ok == Allowed(rules, last_warning_time)
              Rank(i) == priority_order(rules[i].priority)
          IN  IF ok = {} THEN rule_out' = None
              ELSE \E i \in ok :
                     /\ \A k \in ok : Rank(i) < Rank(k) \/ (Rank(i) = Rank(k) /\ i <= k)
                     /\ rule_out' = CoachingCommand(rules[i].priority,
                                                    rules[i].category, rules[i].key)
    ]_vars

\* the cooldown the code configures for rule k
Cooldown(k) ==
  LET rules == AllRules(CHOOSE g \in RuleSnapshots : TRUE)
  IN  rules[CHOOSE i \in 1 .. Len(rules) : rules[i].key = k].cooldown

\* C11 -- cooldown of the rules: when process returns the command of rule k,
\* it has never returned one of rule k before or the last one was returned
\* at least the cooldown of k earlier; so a rule whose condition holds again
\* within its cooldown produces nothing.
C11_RuleCooldown ==
  [][ \A g \in RuleSnapshots :
        (RuleProcess(g) /\ IsCommand(rule_out')) =>
          LET k == rule_out'.message IN
            emitted[k] = 0 \/ now - emitted[k] >= Cooldown(k)
    ]_vars

\* process has returned the command of a rule for the second time, exactly
\* the cooldown of the rule after the first
C11_Witness ==
  /\ IsCommand(rule_out)
  /\ rule_prev # 0
  /\ emitted[rule_out.message] - rule_prev = Cooldown(rule_out.message)

\* C12 -- the timestamps process updates, as claimed: a call of process on
\* a snapshot with hp_max > 0 changes the last-fired timestamp of the rule
\* whose command it returns and of no other rule.
C12_OnlyReturnedRuleStamped ==
  [][ \A g \in RuleSnapshots :
        (g.player.hp_max > 0 /\ RuleProcess(g)) =>
          \A k \in RuleKeys :
            (IsCommand(rule_out') /\ k = rule_out'.message)
              \/ last_warning_time'[k] = last_warning_time[k]
    ]_vars

\* C13 -- candidate selection, as claimed: on every frame that reaches the
\* advisors, the candidate handed to should_issue_command is the directive
\* of the strategic advisor when it returned one -- in process_frame it never
\* does -- and otherwise the directive of the rule engine, if any.
C13_CandidateSelection ==
  frame \in {"done", "TypeError"} =>
    candidate = (IF IsCommand(rule_out) THEN rule_out ELSE None)

\* C14 -- spacing of the strategic calls, as claimed: two network calls are
\* never attempted less than 2 s apart, whatever came of the first.
C14_TriggerSpacing ==
  attempt_prev # 0 => attempt_at - attempt_prev >= min_call_interval

\* what a coaching method returned is a directive
IsDirective(out) == \E topic \in Topics : out = Directive(topic)

\* C15 -- topic debounce: while less than 30 s have passed since a coaching
\* method returned a directive of a topic, a call of the method of that topic
\* attempts no network call and returns no directive, and no directive of the
\* topic is returned; a call for a topic that is not debounced, on a snapshot
\* that passes the gates, attempts its network call whatever other topics
\* were used.
C15_TopicDebounce ==
  [][ /\ \A topic \in LLMTopics, g \in LLMSnapshots :
           CoachStart(topic, g) =>
             IF directive_at[topic] # 0
                  /\ now - directive_at[topic] < history_window
               THEN pending' = pending /\ ~IsDirective(llm_out')
               ELSE ( /\ BeforeGate(topic, g)
                      /\ ShouldTriggerLlm(g) = "True"
                      /\ AfterGate(topic, g) = "True"
                      /\ g.player.hp_max > 0 )
                    => pending' # pending
      /\ \A call \in pending, reply \in Replies :
           (CoachFinish(call, reply) /\ IsDirective(llm_out')) =>
             \/ directive_at[call.directive_type] = 0
             \/ now - directive_at[call.directive_type] >= history_window
    ]_vars

\* a coaching method was called within 30 s of its last directive, on a
\* snapshot that passes the trigger gate, and returned None without a call
C15_Witness ==
  /\ llm_call.trigger = "True"
  /\ llm_call.recently_used
  /\ llm_call.reply = ""
  /\ directive_at[llm_call.directive_type] # 0
  /\ now - directive_at[llm_call.directive_type] = history_window - 1
  /\ pending = {}
  /\ llm_out = None

\* C16 -- failure of the strategic advisor, as claimed: no exception of the
\* strategic step reaches the frame, and on a frame whose strategic step gave
\* no directive a directive of the rule engine is still handed to
\* should_issue_command (or the build tracker's in its place).
C16_AdvisorFailureDegrades ==
  frame \in {"done", "TypeError"} =>
    /\ frame = "done"
    /\ IsCommand(rule_out) => candidate # None

\* C17 -- non-starvation, as claimed: a strategic call that gets no reply is
\* abandoned after a bounded timeout, hundreds of milliseconds: no call is
\* still in flight, its caller suspended, a second after it was made.
C17_BoundedCall ==
  \A call \in pending : now - call.started <= 1

\* C18 -- one call in flight: at most one network call is outstanding at any
\* time, and no step adds a call while one is outstanding.
C18_OneInFlight ==
  /\ [](Cardinality(pending) <= 1)
  /\ [][pending # {} => pending' \subseteq pending]_vars

\* a call has been in flight for longer than the spacing of the calls, on a
\* tick whose snapshot passes the trigger gate
C18_Witness ==
  /\ \E call \in pending : now - call.started > min_call_interval
  /\ \E g \in LLMSnapshots : ShouldTriggerLlm(g) = "True"

\* C19 -- perception gaps, as claimed: RuleEngine.process raises nothing on
\* a snapshot whose maxima are zero and whose timers are unknown.
C19_NeverRaises ==
  rule_out # Raised("ZeroDivisionError")

\* how long the engine holds a candidate back at most: the age at which the
\* active command is stale, and the tick a completion takes
UrgentBound == max_age + 1

\* C20 -- urgent advice is never silenced indefinitely, as claimed: when a
\* candidate of tier CRITICAL is offered on every tick, a second apart, the
\* ticks in a row after which the candidate offered is not the active
\* command are bounded by the staleness of the active command; completion
\* feedback does not displace the candidate tick after tick.
C20_UrgentInstalled ==
  urgent_wait <= UrgentBound

\* C21 -- the other categories, as claimed: an active command whose
\* category is objective, wave, vision or the engine's own feedback never
\* makes should_issue_command report a completion.
C21_OtherCategoriesNeverComplete ==
  [][\A c \in Candidates, g \in Snapshots :
       ( /\ current_command # None
         /\ current_command.command.category
              \in {"objective", "wave", "vision", "feedback"}
         /\ ShouldIssueCommand(c, g) )
       => branch' # "completion"]_vars

\* C22 -- completion on a tick without a candidate, as claimed: when a frame
\* runs to its end with no proposed command while the completion test of the
\* active command holds on the snapshot of the frame, the feedback command
\* is installed on that frame.
C22_CompletionWithoutCandidate ==
  [][( /\ now' = now
       /\ frame' = "done"
       /\ candidate' = None
       /\ current_command # None
       /\ DetectCompletion(rule_in') \notin {"None", "ZeroDivisionError"} )
     => ( /\ current_command'.command.category = "feedback"
          /\ current_command'.issued_time = now )]_vars

\* C23 -- retreat completion, as claimed: a retreat command is not reported
\* complete on a call whose snapshot shows no more health than the snapshot
\* taken when the command was installed, health being above 70 % on both.
C23_RetreatNeedsRise ==
  [][\A c \in Candidates, g \in Snapshots :
       ( /\ current_command # None
         /\ RetreatText(current_command.command.message)
         /\ SafeHp(g.player)
         /\ g.player.hp <= last_hp
         /\ ShouldIssueCommand(c, g) )
       => ~( /\ branch' = "completion"
             /\ current_command'.command.message = "fb_retreat" )]_vars

\* C24 -- aggressive-play completion, as claimed: with an active command
\* of aggressive play (one that only the third test of _detect_completion
\* matches), a call made 8 s or more after its issue, exactly 8 s included,
\* with the player alive reports the completion.
C24_TradeCompletionFromEight ==
  [][\A c \in Candidates, g \in Snapshots :
       ( /\ current_command # None
         /\ TradeText(current_command.command.message)
         /\ ~RecallText(current_command.command.message)
         /\ ~RetreatText(current_command.command.message)
         /\ now - current_command.issued_time >= trade_delay
         /\ g.player.is_alive
         /\ ShouldIssueCommand(c, g) )
       => ( /\ branch' = "completion"
            /\ current_command'.command.message = "fb_trade" )]_vars

\* C25 -- feedback expiry, as claimed: with a feedback command that is not
\* stale as the active command and no completion detected, a candidate of
\* tier HIGH is installed if and only if the feedback was issued 3 s or more
\* before the call, exactly 3 s included.
C25_FeedbackExpiryFromThree ==
  [][\A c \in Candidates, g \in Snapshots :
       ( /\ current_command # None
         /\ current_command.command.category = "feedback"
         /\ ~is_stale(current_command)
         /\ DetectCompletion(g) = "None"
         /\ GetPriority(c) = HIGH
         /\ ShouldIssueCommand(c, g) )
       => IF now - current_command.issued_time >= feedback_delay
            THEN /\ ret' = "True"
                 /\ current_command' = CommandState(c, HIGH)
            ELSE ret' = "False" /\ UNCHANGED engine_vars]_vars

\* C26 -- stale replacement: when the active command is more than 30 s old
\* and no completion is detected, should_issue_command installs the
\* candidate whatever its tier and returns True; the new active command is
\* issued at the time of the call, and get_current_command returns it.
C26_StaleReplacement ==
  [][\A c \in Candidates, g \in Snapshots :
       ( /\ current_command # None
         /\ now - current_command.issued_time > max_age
         /\ DetectCompletion(g) = "None"
         /\ ShouldIssueCommand(c, g) )
       => ( /\ ret' = "True"
            /\ current_command' = CommandState(c, GetPriority(c))
            /\ current_command'.issued_time = now
            /\ CurrentCommand' = c )]_vars

\* a NORMAL candidate was installed in place of a stale command
C26_Witness ==
  /\ op = "should_issue_command"
  /\ branch = "stale"
  /\ ret = "True"
  /\ current_command.priority = NORMAL
  /\ now - current_command.issued_time = 0
  /\ now > Epoch + max_age

\* C27 -- a hold changes nothing, as claimed: a call that returns False
\* leaves the engine and what get_current_command returns unchanged, and a
\* HIGH candidate offered against an active command of tier HIGH or CRITICAL
\* that is neither stale nor feedback is always held.
C27_HoldOriginal ==
  [][\A c \in Candidates, g \in Snapshots :
       /\ (ret' = "False" /\ ShouldIssueCommand(c, g))
            => (UNCHANGED engine_vars /\ CurrentCommand' = CurrentCommand)
       /\ ( /\ current_command # None
            /\ GetPriority(c) = HIGH
            /\ current_command.priority >= HIGH
            /\ ~is_stale(current_command)
            /\ current_command.command.category # "feedback"
            /\ ShouldIssueCommand(c, g) )
            => ret' = "False"]_vars

\* C27, amended: a call that returns False leaves the engine and what
\* get_current_command returns unchanged, and a HIGH candidate offered
\* against an active command of tier HIGH or CRITICAL that is neither stale
\* nor feedback is held unless a completion is detected on the call.
C27_Hold ==
  [][\A c \in Candidates, g \in Snapshots :
       /\ (ret' = "False" /\ ShouldIssueCommand(c, g))
            => (UNCHANGED engine_vars /\ CurrentCommand' = CurrentCommand)
       /\ ( /\ current_command # None
            /\ GetPriority(c) = HIGH
            /\ current_command.priority >= HIGH
            /\ ~is_stale(current_command)
            /\ current_command.command.category # "feedback"
            /\ DetectCompletion(g) = "None"
            /\ ShouldIssueCommand(c, g) )
            => ret' = "False"]_vars

\* a HIGH candidate was held against a HIGH command that had been the
\* active command for 3 s or more
C27_Witness ==
  /\ op = "should_issue_command"
  /\ branch = "hold"
  /\ ret = "False"
  /\ current_command.priority = HIGH
  /\ current_command.command.category # "feedback"
  /\ now - last_command_time >= min_command_interval
  /\ ~is_stale(current_command)

\* C28 -- no replacement by a lower tier, as claimed: a candidate of a tier
\* strictly lower than that of the active command is not installed while the
\* active command is neither stale nor feedback and no completion is detected
\* on the call.
C28_LowerTierNeverReplaces ==
  [][\A c \in Candidates, g \in Snapshots :
       ( /\ current_command # None
         /\ GetPriority(c) < current_command.priority
         /\ ~is_stale(current_command)
         /\ current_command.command.category # "feedback"
         /\ DetectCompletion(g) = "None"
         /\ ShouldIssueCommand(c, g) )
       => (ret' = "False" /\ current_command' = current_command)]_vars

\* C29 -- no feedback for a stale command, as claimed: when the active
\* command is more than 30 s old, should_issue_command reports no completion
\* of it and installs the candidate.
C29_StaleNeverCompletes ==
  [][\A c \in Candidates, g \in Snapshots :
       ( /\ current_command # None
         /\ now - current_command.issued_time > max_age
         /\ ShouldIssueCommand(c, g) )
       => ( /\ branch' # "completion"
            /\ current_command' = CommandState(c, GetPriority(c)) )]_vars

\* C30 -- pruning and debounce: the directive a coaching method returned
\* last for a topic, when it is less than 30 s old, is still an entry of the
\* history, so that _was_recently_used counts it.
C30_PruningKeepsRecent ==
  \A topic \in Topics :
    (directive_at[topic] # 0 /\ directive_at[topic] > now - history_window)
      => /\ \E i \in 1 .. Len(directive_history) :
              directive_history[i]
                = [timestamp |-> directive_at[topic], directive_type |-> topic]
         /\ WasRecentlyUsed(topic)

\* _add_to_history has dropped the entry of one topic for its age while the
\* entry of another is less than 30 s old
C30_Witness ==
  \E old, young \in Topics :
    /\ directive_at[old] # 0
    /\ \A i \in 1 .. Len(directive_history) :
         directive_history[i].directive_type # old
    /\ directive_at[young] > now - history_window
    /\ WasRecentlyUsed(young)

====
